---- MODULE Spec2Model ----
(***************************************************************************)
(* SkyHunter (skyhunter.py): the sweep loop of run(), the plateau/analog   *)
(* detector MultiBandDetector.process_psd with its persistence history,    *)
(* and the floor-rise alert, as a state machine.                           *)
(*                                                                         *)
(* Arithmetic.  The program computes in floating point; the model computes *)
(* the same quantities exactly, as integers carrying a known scale:        *)
(*   - an averaged PSD is its sum over the buffered frames together with   *)
(*     the frame count `den` (np.mean = sum / den);                        *)
(*   - smooth_ma returns 3 times the smoothed array (the 1/3 kernel);      *)
(*   - rolling_percentile returns PctDen times the interpolated value;     *)
(*   - so an excess is scaled by ExScale(den) = 3 * PctDen * den;          *)
(*   - a median is doubled (mean of the two middle values of an even       *)
(*     count), as is min_floor_db_seen;                                    *)
(*   - frequencies are integers in Hz; the program's MHz values are Hz /   *)
(*     HzPerMHz and every comparison is made on the Hz side.               *)
(***************************************************************************)
EXTENDS Integers, Sequences, FiniteSets, TLC

\* ------------------------------------------------------------------ bounds
\* Number of PSD bins of a captured frame (args.nfft).
NumBins == 8
\* Largest --avg-frames, --persist-window, --persist-hits, --floor-persist-hits
\* drawn by Init.
MaxAvgFrames == 2
MaxPersistWindow == 2
MaxPersistHits == 3
MaxFloorPersistHits == 3
\* Longest run of consecutive rising-floor frames that is followed.
MaxStreak == 5

\* Longest mask handed to _contiguous on its own.
MaxMaskLen == 6

\* -------------------------------------------------------- program constants
HzPerMHz == 1000000
FloorWindowLen == 5
SmoothTaps == 3
PercentileQ == 20
PctDen == 100
DefaultDeltaDb == 6
DefaultMeanExcessDb == 8
DefaultNbinsBaseline == 5
DefaultFloorRiseDb == 10
FpvPeakExDb == 12
FpvMeanExFloorDb == 6
FpvMeanExBackoffDb == 2
MinFrameSize == 3
OverlapNum == 1
OverlapDen == 2

FPV_58_WIDE_MHZ == <<5650, 5920>>
DJI_24_MHZ == <<2400, 2483>>
DJI_58_MHZ == <<5725, 5850>>

\* Python's None beside a number: an optional value is <<>> (None) or <<v>>.
NoneVal == <<>>
Some(v) == <<v>>
IsNone(o) == o = <<>>
Val(o) == o[1]

\* ----------------------------------------------------------------- helpers
Min2(a, b) == IF a <= b THEN a ELSE b
Max2(a, b) == IF a >= b THEN a ELSE b

RECURSIVE SeqSum(_)
SeqSum(s) == IF s = <<>> THEN 0 ELSE Head(s) + SeqSum(Tail(s))

RECURSIVE Gcd(_, _)
Gcd(a, b) == IF b = 0 THEN a ELSE Gcd(b, a % b)
Lcm(a, b) == (a * b) \div Gcd(a, b)

RECURSIVE LcmOfLens(_)
LcmOfLens(lists) ==
    IF lists = <<>> THEN 1 ELSE Lcm(Len(Head(lists)), LcmOfLens(Tail(lists)))

\* The j-th smallest element (0-based) of the values of sequence w: sorted(w)[j].
OrderStat(w, j) ==
    CHOOSE v \in {w[p] : p \in DOMAIN w} :
        /\ Cardinality({p \in DOMAIN w : w[p] < v}) <= j
        /\ j < Cardinality({p \in DOMAIN w : w[p] <= v})

\* Python slice x[lo:hi] of a sequence read with 0-based indices.
Slice(x, lo, hi) == IF hi <= lo THEN <<>> ELSE SubSeq(x, lo + 1, hi)

\* DequeAppend as a full buffer that refuses the new element.
DequeAppendKeepsOldest(d, x, maxlen) ==
    IF Len(d) >= maxlen THEN d ELSE Append(d, x)

\* collections.deque(maxlen=maxlen).append(x): append on the right, and when the
\* length then exceeds maxlen drop the leftmost element.
DequeAppend(d, x, maxlen) ==
    LET a == Append(d, x)
    IN  IF Len(a) > maxlen THEN Tail(a) ELSE a

\* in_band(freq, band) with freq carried in units of 1/u MHz:
\* band[0] <= freq / u <= band[1], decided on floor(freq / u) and ceil(freq / u)
\* (band edges are integers), which keeps the products out of the comparison.
in_band(freq, band_mhz, u) ==
    band_mhz[1] <= freq \div u /\ 0 - ((0 - freq) \div u) <= band_mhz[2]

\* classify_signal, the conditions of its two rules (lines 103 and 105).
FpvRule(pk_freq, est_width, u) ==
    est_width <= 10 * u /\ in_band(pk_freq, FPV_58_WIDE_MHZ, u)
DjiRule(pk_freq, est_width, u) ==
    est_width >= 10 * u
       /\ (in_band(pk_freq, DJI_24_MHZ, u) \/ in_band(pk_freq, DJI_58_MHZ, u))

\* classify_signal with the width limit of its docstring (<= 12 MHz) in the
\* first rule.
classify_signal_docstring(pk_freq, est_width, u) ==
    IF IsNone(pk_freq) THEN "Signal Detected"
    ELSE IF est_width <= 12 * u /\ in_band(Val(pk_freq), FPV_58_WIDE_MHZ, u)
         THEN "FPV Detected"
    ELSE IF DjiRule(Val(pk_freq), est_width, u) THEN "DJI Detected"
    ELSE "Signal Detected"

\* classify_signal(pk_freq_mhz, est_width_mhz), both carried in units of 1/u MHz;
\* pk_freq is optional.
classify_signal(pk_freq, est_width, u) ==
    IF IsNone(pk_freq) THEN "Signal Detected"
    ELSE IF FpvRule(Val(pk_freq), est_width, u) THEN "FPV Detected"
    ELSE IF DjiRule(Val(pk_freq), est_width, u) THEN "DJI Detected"
    ELSE "Signal Detected"

\* np.convolve(x, ones(taps), mode="same"): the full convolution has
\* n + taps - 1 entries; "same" keeps max(n, taps) of them, centred.
ConvolveOnesSame(x, taps) ==
    LET n == Len(x)
        full == [i \in 1..(n + taps - 1) |->
                   SeqSum([j \in 1..n |->
                             IF i - j >= 0 /\ i - j <= taps - 1 THEN x[j] ELSE 0])]
        L == Max2(n, taps)
        off == (Min2(n, taps) - 1) \div 2
    IN  [i \in 1..L |-> full[i + off]]

\* _smooth_ma(x, taps=3), times taps (the kernel is ones(taps)/taps).
smooth_ma(x) == ConvolveOnesSame(x, SmoothTaps)

\* np.percentile(w, q) with linear interpolation, times PctDen.
Percentile(w, q) ==
    LET m == Len(w)
        pos == q * (m - 1)
        j == pos \div PctDen
        g == pos % PctDen
    IN  IF g = 0 THEN PctDen * OrderStat(w, j)
        ELSE (PctDen - g) * OrderStat(w, j) + g * OrderStat(w, j + 1)

\* _rolling_percentile(x, k, q), times PctDen.
rolling_percentile(x, k, q) ==
    LET n == Len(x)
    IN  [i \in 1..n |-> Percentile(Slice(x, Max2(0, (i - 1) - k), Min2(n, (i - 1) + k + 1)), q)]

\* Scale of an excess value computed from a PSD given as (sum, den).
ExScale(den) == SmoothTaps * PctDen * den

\* excess = psd_db_s - base, times ExScale(den).
Excess(psd, k) ==
    LET s == smooth_ma(psd)
        base == rolling_percentile(s, k, PercentileQ)
    IN  [i \in 1..Len(s) |-> PctDen * s[i] - base[i]]

\* np.median(psd_db), doubled.
Median2(x) ==
    LET n == Len(x)
    IN  IF n % 2 = 1 THEN 2 * OrderStat(x, (n - 1) \div 2)
        ELSE OrderStat(x, n \div 2 - 1) + OrderStat(x, n \div 2)

\* ---------------------------------------------------------------- detector
\* MultiBandDetector._contiguous(mask): the loop over enumerate(mask), i 0-based,
\* s the optional start of the run being read; regions are (start, end) with
\* end exclusive.
RECURSIVE ContiguousLoop(_, _, _, _)
ContiguousLoop(mask, i, s, regions) ==
    IF i = Len(mask)
    THEN IF ~IsNone(s) THEN Append(regions, <<Val(s), Len(mask)>>) ELSE regions
    ELSE IF mask[i + 1] /\ IsNone(s) THEN ContiguousLoop(mask, i + 1, Some(i), regions)
    ELSE IF ~mask[i + 1] /\ ~IsNone(s)
         THEN ContiguousLoop(mask, i + 1, NoneVal, Append(regions, <<Val(s), i>>))
    ELSE ContiguousLoop(mask, i + 1, s, regions)

\* contiguous without the run that is still open when the mask ends.
contiguous_no_tail(mask) ==
    SelectSeq(ContiguousLoop(mask, 0, NoneVal, <<>>), LAMBDA r : r[2] < Len(mask))

contiguous(mask) == ContiguousLoop(mask, 0, NoneVal, <<>>)

\* MultiBandDetector._overlap_frac as the fraction <<numerator, denominator>>.
overlap_frac(a_low, a_high, b_low, b_high) ==
    LET lo == Max2(a_low, b_low)
        hi == Min2(a_high, b_high)
        sl == Min2(a_high - a_low, b_high - b_low)
    IN  IF hi <= lo THEN <<0, 1>>
        ELSE IF sl > 0 THEN <<hi - lo, sl>> ELSE <<0, 1>>

\* OverlapsEnough with a strict comparison (> 0.5).
OverlapsMoreThanHalf(a_low, a_high, b_low, b_high) ==
    LET f == overlap_frac(a_low, a_high, b_low, b_high)
    IN  f[1] * OverlapDen > OverlapNum * f[2]

\* _overlap_frac(...) >= 0.5
OverlapsEnough(a_low, a_high, b_low, b_high) ==
    LET f == overlap_frac(a_low, a_high, b_low, b_high)
    IN  f[1] * OverlapDen >= OverlapNum * f[2]

RECURSIVE SeqMax(_)
SeqMax(s) == IF Len(s) = 1 THEN s[1] ELSE Max2(Head(s), SeqMax(Tail(s)))

\* The detector's parameters as run() builds them from args.
Detector(args) ==
    [nbins_baseline |-> args.nbins_baseline,
     hot_delta_db   |-> args.delta_db,
     dji_mean_ex_db |-> args.mean_excess_db,
     fpv_mean_ex_db |-> Max2(FpvMeanExFloorDb, args.mean_excess_db - FpvMeanExBackoffDb),
     fpv_peak_ex_db |-> FpvPeakExDb,
     persist_hits   |-> args.persist_hits,
     persist_window |-> args.persist_window]

\* process_psd: hot = excess >= self.hot_delta_db
HotMask(det, psd, den) ==
    LET excess == Excess(psd, det.nbins_baseline)
    IN  [i \in 1..Len(excess) |-> excess[i] >= det.hot_delta_db * ExScale(den)]

\* process_psd, region extraction: one region per run of hot bins.  sum_ex / n is
\* the mean excess; sum_ex and peak_ex are scaled by ExScale(den).
Regions(det, freqs_hz, psd, den) ==
    LET excess == Excess(psd, det.nbins_baseline)
        hot == HotMask(det, psd, den)
        runs == contiguous(hot)
    IN  [r \in 1..Len(runs) |->
           LET a == runs[r][1]
               b == runs[r][2]
               low_hz == freqs_hz[a + 1]
               high_hz == freqs_hz[b]
               ex == Slice(excess, a, b)
           IN  [cf      |-> (low_hz + high_hz) \div 2,
                w       |-> high_hz - low_hz,
                sum_ex  |-> SeqSum(ex),
                n       |-> b - a,
                peak_ex |-> SeqMax(ex),
                lo      |-> low_hz,
                hi      |-> high_hz]]

\* IsAccepted with an FPV rule that needs the peak and the mean excess both.
IsAcceptedPeakAndMean(det, r, den) ==
    \/ /\ 10 * HzPerMHz <= r.w /\ r.w <= 40 * HzPerMHz
       /\ r.sum_ex >= det.dji_mean_ex_db * ExScale(den) * r.n
    \/ /\ 4 * HzPerMHz <= r.w /\ r.w <= 12 * HzPerMHz
       /\ r.peak_ex >= det.fpv_peak_ex_db * ExScale(den)
       /\ r.sum_ex >= det.fpv_mean_ex_db * ExScale(den) * r.n

\* process_psd, acceptance rules (width + excess) for one region: the if and
\* the elif append the same tuple, so a region is accepted when either holds.
IsAccepted(det, r, den) ==
    \/ /\ 10 * HzPerMHz <= r.w /\ r.w <= 40 * HzPerMHz
       /\ r.sum_ex >= det.dji_mean_ex_db * ExScale(den) * r.n
    \/ /\ 4 * HzPerMHz <= r.w /\ r.w <= 12 * HzPerMHz
       /\ \/ r.peak_ex >= det.fpv_peak_ex_db * ExScale(den)
          \/ r.sum_ex >= det.fpv_mean_ex_db * ExScale(den) * r.n

\* process_psd, the acceptance loop over the extracted regions.
AcceptRegions(det, regions, den) ==
    SelectSeq(regions, LAMBDA r : IsAccepted(det, r, den))

Accepted(det, freqs_hz, psd, den) ==
    AcceptRegions(det, Regions(det, freqs_hz, psd, den), den)

\* Hits counting every past pass that holds an interval, overlapping or not.
HitsAnyPast(hist, lo, hi) ==
    1 + Cardinality({p \in DOMAIN hist : hist[p] # <<>>})

\* process_psd, persistence: hits = 1 + the number of past passes in hist that
\* hold an interval overlapping (lo, hi) by at least one half.
Hits(hist, lo, hi) ==
    1 + Cardinality({p \in DOMAIN hist :
                       \E q \in DOMAIN hist[p] :
                           OverlapsEnough(lo, hi, hist[p][q][1], hist[p][q][2])})

PsdAlert(r) ==
    [center |-> r.cf, width |-> r.w, sum_ex |-> r.sum_ex, n |-> r.n, peak_ex |-> r.peak_ex]

\* process_psd, the persistence stage on the accepted regions and the history
\* deque of the key: the alerts returned and the deque afterwards (accepted is
\* kept for the properties).
Persistence(det, hist, accepted) ==
    LET firing == SelectSeq(accepted, LAMBDA r : Hits(hist, r.lo, r.hi) >= det.persist_hits)
    IN  [alerts   |-> [i \in 1..Len(firing) |-> PsdAlert(firing[i])],
         accepted |-> [i \in 1..Len(accepted) |-> <<accepted[i].lo, accepted[i].hi>>],
         hist     |-> DequeAppend(hist,
                                  [i \in 1..Len(accepted) |-> <<accepted[i].lo, accepted[i].hi>>],
                                  det.persist_window)]

\* process_psd(key, freqs_hz, psd_db) on the history deque of key.
process_psd(det, hist, freqs_hz, psd, den) ==
    Persistence(det, hist, Accepted(det, freqs_hz, psd, den))

\* process_psd as a call that can raise.  np.convolve refuses an empty array
\* (ValueError); for 1 or 2 samples it returns SmoothTaps values, so the hot
\* mask is longer than freqs_hz and a run that ends beyond the axis makes
\* freqs_hz[a] or freqs_hz[b-1] an IndexError.  Nothing is appended to the
\* history when the call raises.
process_psd_call(det, hist, freqs_hz, psd, den) ==
    LET none == [alerts |-> <<>>, accepted |-> <<>>, hist |-> hist]
    IN  IF Len(psd) = 0 THEN [raised |-> "ValueError", res |-> none]
        ELSE IF \E i \in DOMAIN contiguous(HotMask(det, psd, den)) :
                   LET run == contiguous(HotMask(det, psd, den))[i]
                   IN  run[1] >= Len(freqs_hz) \/ run[2] - 1 >= Len(freqs_hz)
             THEN [raised |-> "IndexError", res |-> none]
        ELSE [raised |-> "none", res |-> process_psd(det, hist, freqs_hz, psd, den)]

\* np.argmax(x): the first (0-based) index of the maximum.
ArgMax(x) ==
    CHOOSE i \in 0..(Len(x) - 1) :
        /\ \A j \in 0..(Len(x) - 1) : x[j + 1] <= x[i + 1]
        /\ \A j \in 0..(i - 1) : x[j + 1] < x[i + 1]

RECURSIVE ExpandLeft(_, _, _)
ExpandLeft(excess, thr, L) ==
    IF L - 1 >= 0 /\ excess[L] >= thr THEN ExpandLeft(excess, thr, L - 1) ELSE L

RECURSIVE ExpandRight(_, _, _)
ExpandRight(excess, thr, R) ==
    IF R + 1 < Len(excess) /\ excess[R + 2] >= thr THEN ExpandRight(excess, thr, R + 1) ELSE R

\* estimate_region_at_peak on a raw frame (den = 1): pk_freq (Hz, optional),
\* peak_db (times 3, optional) and width (Hz).
estimate_region_at_peak(freqs_hz, psd_db, nbins_baseline, hot_delta_db) ==
    IF Len(psd_db) < 3
    THEN [pk_freq |-> NoneVal, peak_db |-> NoneVal, width |-> 0]
    ELSE LET psd_db_s == smooth_ma(psd_db)
             excess == Excess(psd_db, nbins_baseline)
             pk == ArgMax(psd_db_s)
             thr == hot_delta_db * ExScale(1)
             L == ExpandLeft(excess, thr, pk)
             R == ExpandRight(excess, thr, pk)
         IN  [pk_freq |-> Some(freqs_hz[pk + 1]),
              peak_db |-> Some(psd_db_s[pk + 1]),
              width   |-> Max2(0, freqs_hz[R + 1] - freqs_hz[L + 1])]

\* ------------------------------------------------------------- sweep logic
RECURSIVE RangeSeq(_, _, _)
\* list(range(start, stop, step)) for step > 0
RangeSeq(start, stop, step) ==
    IF start >= stop THEN <<>> ELSE <<start>> \o RangeSeq(start + step, stop, step)

\* centers_for_band without the last centre that reaches the band's high edge.
centers_for_band_no_tail(band_mhz, sample_rate_hz, step_overlap) ==
    LET low_hz == band_mhz[1] * HzPerMHz
        high_hz == band_mhz[2] * HzPerMHz
        span == sample_rate_hz
        step == Max2(1, (span * step_overlap[1]) \div step_overlap[2])
        starts == RangeSeq(low_hz, high_hz - span + 1, step)
    IN  IF span <= 0 \/ (high_hz - low_hz) <= 0 THEN <<>>
        ELSE IF span >= (high_hz - low_hz) THEN <<(low_hz + high_hz) \div 2>>
        ELSE [i \in 1..Len(starts) |-> starts[i] + span \div 2]

\* centers_for_band(band_mhz, sample_rate_hz, step_overlap); step_overlap is
\* the fraction <<numerator, denominator>>.
centers_for_band(band_mhz, sample_rate_hz, step_overlap) ==
    LET low_hz == band_mhz[1] * HzPerMHz
        high_hz == band_mhz[2] * HzPerMHz
        span == sample_rate_hz
        step == Max2(1, (span * step_overlap[1]) \div step_overlap[2])
        starts == RangeSeq(low_hz, high_hz - span + 1, step)
        centers == [i \in 1..Len(starts) |-> starts[i] + span \div 2]
    IN  IF span <= 0 \/ (high_hz - low_hz) <= 0 THEN <<>>
        ELSE IF span >= (high_hz - low_hz) THEN <<(low_hz + high_hz) \div 2>>
        ELSE IF centers # <<>> /\ (centers[Len(centers)] + span \div 2) < high_hz
             THEN Append(centers, high_hz - span \div 2)
        ELSE centers

\* run(): band_centers, one centre list per band, with the midpoint fallback.
BandCenters(bands, sample_rate_hz, step_overlap) ==
    [b \in 1..Len(bands) |->
        LET cs == centers_for_band(bands[b], sample_rate_hz, step_overlap)
        IN  IF cs = <<>> THEN <<((bands[b][1] + bands[b][2]) * HzPerMHz) \div 2>> ELSE cs]

\* RFStreamer.capture_psd(center_hz, ...): the frequency axis of a frame is
\* fftshift(fftfreq(nfft)) * sample_rate + center_hz; the power array is what
\* welch (an external library) computes from the samples read, and is the
\* input `iq.psd`.  A read that returns None, or fewer than nfft samples,
\* gives the all-None result.
FreqAxis(center_hz, nfft, sample_rate) ==
    [i \in 1..nfft |-> center_hz + ((i - 1) - nfft \div 2) * (sample_rate \div nfft)]

capture_psd(a, center_hz, iq) ==
    IF iq.kind = "none" THEN NoneVal
    ELSE IF iq.kind = "short" THEN NoneVal
    ELSE Some([freqs_hz |-> FreqAxis(center_hz, a.nfft, a.sample_rate),
               psd_db   |-> iq.psd,
               sp       |-> <<center_hz - a.sample_rate \div 2,
                              center_hz + a.sample_rate \div 2>>])

\* ------------------------------------------------------------------- state
VARIABLES
    args,               \* the parsed command line (constant during run)
    bands,              \* the band list handed to run()
    band_centers,       \* run(): one list of tuning centres per band
    rf_env,             \* the power arrays the capture provider can deliver
    pc,                 \* "dwell": inside the sweep loop; "exited": left it
    exit_cause,         \* why the loop was left
    band_idx,           \* run(): band_idx, kept modulo len(bands)
    center_idx,         \* run(): center_idx, kept modulo CenterPeriod
    psd_avg_buf,        \* run(): deque(maxlen=avg_frames) of power arrays
    history,            \* det.history: SweepKey -> deque(maxlen=persist_window)
    min_floor_db_seen,  \* run(): optional, doubled
    floor_hits_window,  \* run(): deque(maxlen=5) of 0/1
    \* ---- observation of the run (history variables, never read by the loop)
    event,              \* what the last step was
    emitted,            \* the alerts pushed to the sink during the last step
    last_pass,          \* the last step's process_psd call, if it made one
    buf_tags,           \* for each buffered frame, <<band position, centre>> at capture
    visit_pos,          \* dwells completed since the loop entered the current band
    streak,             \* consecutive frames at min floor + 11 dB from a hit-free window
    streak_fired,       \* positions in the streak at which a floor alert fired
    lone_hot,           \* captured frames that alone yield an accepted region (0, 1, 2 = more)
    floors_seen,        \* the (doubled) medians of all frames captured so far
    floor_fired,        \* the last captured frame fired a floor alert
    quals_since_fire,   \* qualifying frames since the last earlier floor alert (saturating)
    left_hist,          \* per key: its history when the loop last left it, until its next pass
    resumed,            \* the last step was a key's first pass after the loop came back to it
    \* ---- a function of the program called on its own
    call,               \* the function and its arguments
    ret                 \* what it returned

cfg_vars == <<args, bands, band_centers, rf_env>>
loop_vars == <<pc, exit_cause, band_idx, center_idx, psd_avg_buf, history,
               min_floor_db_seen, floor_hits_window>>
obs_vars == <<event, emitted, last_pass, buf_tags, visit_pos, streak, streak_fired,
              lone_hot, floors_seen, floor_fired, quals_since_fire, left_hist, resumed>>
fn_vars == <<call, ret>>
vars == <<args, bands, band_centers, rf_env,
          pc, exit_cause, band_idx, center_idx, psd_avg_buf, history,
          min_floor_db_seen, floor_hits_window,
          event, emitted, last_pass, buf_tags, visit_pos, streak, streak_fired,
          lone_hot, floors_seen, floor_fired, quals_since_fire, left_hist, resumed,
          call, ret>>

\* Python integers do not overflow, and the loop reads center_idx only through
\* center_idx % len(centers): the model keeps it modulo the least common
\* multiple of the list lengths (and band_idx modulo len(bands)).
CenterPeriod == LcmOfLens(band_centers)

\* run(), loop head: band, centers, center of the current iteration.
BandPos == (band_idx % Len(bands)) + 1
band == bands[BandPos]
centers == band_centers[BandPos]
CenterPos == center_idx % Len(centers)
center == centers[CenterPos + 1]

\* key = (tuple(band), center)
SweepKey(b, c) == <<b, c>>
KeysOf(bs, bcs) ==
    UNION {{SweepKey(bs[b], bcs[b][c]) : c \in 1..Len(bcs[b])} : b \in 1..Len(bs)}
Keys == KeysOf(bands, band_centers)

\* ------------------------------------------------------------------ inputs
\* Power arrays (dB) of NumBins bins: a flat floor, and a floor carrying one
\* block of n raised bins starting at 0-based bin a.
Flat(level) == [i \in 1..NumBins |-> level]
Bump(a, n, base, h) ==
    [i \in 1..NumBins |-> IF a <= i - 1 /\ i - 1 < a + n THEN base + h ELSE base]

Quiet == Flat(0)
Loud == Flat(DefaultFloorRiseDb + 1)
Low == Flat(0 - 4)
NarrowA == Bump(1, 3, 0, 15)
NarrowB == Bump(2, 3, 0, 15)
NarrowC == Bump(4, 3, 0, 15)
WideE == Bump(0, 5, 0, 15)
WideG == Bump(3, 5, 0, 15)
Spike == Bump(1, 3, 0, 30)
LoudA == Bump(1, 3, DefaultFloorRiseDb + 1, 15)

EnvQuiet == {Quiet}
EnvOverlap == {Quiet, NarrowA, NarrowB, NarrowC}
EnvPartial == {Quiet, WideE, WideG}
EnvSpike == {Quiet, Spike}
EnvFloor == {Quiet, Loud, Low}
EnvMixed == {Quiet, LoudA}

\* What one read of the provider can give: nothing, too few samples, or samples
\* whose PSD is one of the arrays of rf_env.
ProviderReads ==
    {[kind |-> "none", psd |-> <<>>], [kind |-> "short", psd |-> <<>>]}
    \cup {[kind |-> "samples", psd |-> x] : x \in rf_env}

\* Band lists (MHz) as main() hands them to run(): low < high in every band.
BandOne == <<0, 16>>
BandTwo == <<0, 28>>
BandThree == <<40, 70>>
BandLists == {<<BandOne>>, <<BandTwo>>, <<BandTwo, BandThree>>, <<BandThree, BandTwo>>,
              <<BandTwo, BandOne>>}

\* The command line: defaults of main() except for the fields Init varies.
BaseArgs ==
    [sample_rate         |-> NumBins * 2 * HzPerMHz,
     nfft                |-> NumBins,
     center_overlap      |-> <<3, 4>>,
     avg_frames          |-> 1,
     delta_db            |-> DefaultDeltaDb,
     mean_excess_db      |-> DefaultMeanExcessDb,
     nbins_baseline      |-> DefaultNbinsBaseline,
     persist_hits        |-> 2,
     persist_window      |-> 1,
     floor_alert_enable  |-> FALSE,
     floor_alert_rise_db |-> DefaultFloorRiseDb,
     floor_persist_hits  |-> 2]

\* Sweeping: every band list, a quiet spectrum.
SweepConfigs ==
    {[a |-> [BaseArgs EXCEPT !.avg_frames = n], b |-> bl, e |-> EnvQuiet] :
        n \in 1..MaxAvgFrames, bl \in BandLists}

\* Detection: one band, spectra with regions.  Every persistence setting on
\* single frames, and every averaging depth at the default persistence.
DetectConfigs ==
    {[a |-> [BaseArgs EXCEPT !.persist_hits = h, !.persist_window = w],
      b |-> <<BandOne>>, e |-> env] :
        h \in 1..MaxPersistHits, w \in 0..MaxPersistWindow,
        env \in {EnvOverlap, EnvPartial}}
    \cup
    {[a |-> [BaseArgs EXCEPT !.avg_frames = n], b |-> bl, e |-> EnvSpike] :
        n \in 1..MaxAvgFrames, bl \in {<<BandOne>>, <<BandTwo>>}}

\* Floor alert: rising and falling floors, every floor_persist_hits up to the
\* bound and one above the window length; and both alert paths together.
FloorConfigs ==
    {[a |-> [BaseArgs EXCEPT !.floor_alert_enable = TRUE, !.floor_persist_hits = h],
      b |-> <<BandOne>>, e |-> EnvFloor] :
        h \in (1..MaxFloorPersistHits) \cup {FloorWindowLen + 1}}
    \cup
    {[a |-> [BaseArgs EXCEPT !.floor_alert_enable = TRUE, !.avg_frames = n],
      b |-> <<BandTwo>>, e |-> EnvMixed] : n \in 1..MaxAvgFrames}

Configs == SweepConfigs \cup DetectConfigs \cup FloorConfigs

\* No function has been called on its own.  The arguments and the result of a
\* call are records whose field names belong to the function called.
NoCall == [op |-> "none", in |-> [none |-> TRUE]]
NoRet == [none |-> TRUE]

NoPass == [ran |-> FALSE, key |-> <<>>, before |-> <<>>, accepted |-> <<>>,
           alerts |-> <<>>, tags |-> <<>>]

\* The state run() has built when it first reaches `while True`, for a
\* configuration of the set cfgs.
InitWith(cfgs) ==
    /\ \E c \in cfgs :
          /\ args = c.a
          /\ bands = c.b
          /\ rf_env = c.e
          /\ band_centers = BandCenters(c.b, c.a.sample_rate, c.a.center_overlap)
          /\ history = [k \in KeysOf(c.b, BandCenters(c.b, c.a.sample_rate, c.a.center_overlap))
                          |-> <<>>]
          /\ left_hist = [k \in KeysOf(c.b, BandCenters(c.b, c.a.sample_rate,
                                                       c.a.center_overlap))
                            |-> NoneVal]
    /\ pc = "dwell"
    /\ exit_cause = "none"
    /\ band_idx = 0
    /\ center_idx = 0
    /\ psd_avg_buf = <<>>
    /\ min_floor_db_seen = NoneVal
    /\ floor_hits_window = <<>>
    /\ event = "start"
    /\ emitted = <<>>
    /\ last_pass = NoPass
    /\ buf_tags = <<>>
    /\ visit_pos = 0
    /\ streak = 0
    /\ streak_fired = {}
    /\ lone_hot = 0
    /\ floors_seen = {}
    /\ floor_fired = FALSE
    /\ quals_since_fire = 0
    /\ resumed = FALSE
    /\ call = NoCall
    /\ ret = NoRet

Init == InitWith(Configs)

\* ----------------------------------------------------------------- actions
\* np.mean(psd_avg_buf, axis=0), times len(psd_avg_buf).
BufSum(buf) ==
    [i \in 1..Len(buf[1]) |-> SeqSum([j \in 1..Len(buf) |-> buf[j][i]])]

\* run(), the PSD-based detector block for one captured frame f: the buffer after
\* the append, whether process_psd is called, and its result.
PsdPath(f) ==
    LET buf == DequeAppend(psd_avg_buf, f.psd_db, args.avg_frames)
        ran == Len(buf) >= args.avg_frames
        key == SweepKey(band, center)
    IN  [buf |-> buf,
         ran |-> ran,
         key |-> key,
         res |-> IF ran
                 THEN process_psd(Detector(args), history[key], f.freqs_hz,
                                  BufSum(buf), Len(buf))
                 ELSE [alerts |-> <<>>, accepted |-> <<>>, hist |-> history[key]]]

\* FloorPath with a fired alert leaving the hit window as it is (no clear()).
FloorPathKeepsWindow(f, cur_floor, new_min) ==
    LET on == args.floor_alert_enable /\ ~IsNone(new_min)
        hit == IF on /\ cur_floor >= Val(new_min) + 2 * args.floor_alert_rise_db
               THEN 1 ELSE 0
        win == DequeAppend(floor_hits_window, hit, FloorWindowLen)
        fires == on /\ SeqSum(win) >= args.floor_persist_hits
    IN  [on     |-> on,
         hit    |-> hit,
         fires  |-> fires,
         window |-> IF ~on THEN floor_hits_window ELSE win,
         events |-> IF fires
                    THEN <<[path |-> "floor", label |-> "Signal Detected",
                            freq |-> NoneVal, width |-> 0]>>
                    ELSE <<>>]

\* FloorPath run only for a frame that fills the averaging buffer.
FloorPathWhenAveraged(f, cur_floor, new_min) ==
    LET on == args.floor_alert_enable /\ ~IsNone(new_min)
                 /\ Len(psd_avg_buf) + 1 >= args.avg_frames
        hit == IF on /\ cur_floor >= Val(new_min) + 2 * args.floor_alert_rise_db
               THEN 1 ELSE 0
        win == DequeAppend(floor_hits_window, hit, FloorWindowLen)
        fires == on /\ SeqSum(win) >= args.floor_persist_hits
    IN  [on     |-> on,
         hit    |-> hit,
         fires  |-> fires,
         window |-> IF ~on THEN floor_hits_window ELSE IF fires THEN <<>> ELSE win,
         events |-> IF fires
                    THEN <<[path |-> "floor", label |-> "Signal Detected",
                            freq |-> NoneVal, width |-> 0]>>
                    ELSE <<>>]

\* FloorPath with a hit window that never drops its oldest entry (no maxlen).
FloorPathUnboundedWindow(f, cur_floor, new_min) ==
    LET on == args.floor_alert_enable /\ ~IsNone(new_min)
        hit == IF on /\ cur_floor >= Val(new_min) + 2 * args.floor_alert_rise_db
               THEN 1 ELSE 0
        win == Append(floor_hits_window, hit)
        fires == on /\ SeqSum(win) >= args.floor_persist_hits
    IN  [on     |-> on,
         hit    |-> hit,
         fires  |-> fires,
         window |-> IF ~on THEN floor_hits_window ELSE IF fires THEN <<>> ELSE win,
         events |-> IF fires
                    THEN <<[path |-> "floor", label |-> "Signal Detected",
                            freq |-> NoneVal, width |-> 0]>>
                    ELSE <<>>]

\* run(), the floor-based alert block for one captured frame with doubled
\* median cur_floor, after min_floor_db_seen became new_min.
FloorPath(f, cur_floor, new_min) ==
    LET on == args.floor_alert_enable /\ ~IsNone(new_min)
        hit == IF on /\ cur_floor >= Val(new_min) + 2 * args.floor_alert_rise_db
               THEN 1 ELSE 0
        win == DequeAppend(floor_hits_window, hit, FloorWindowLen)
        fires == on /\ SeqSum(win) >= args.floor_persist_hits
        est == estimate_region_at_peak(f.freqs_hz, f.psd_db,
                                       args.nbins_baseline, args.delta_db)
    IN  [on     |-> on,
         hit    |-> hit,
         fires  |-> fires,
         window |-> IF ~on THEN floor_hits_window ELSE IF fires THEN <<>> ELSE win,
         events |-> IF fires
                    THEN <<[path  |-> "floor",
                            label |-> classify_signal(est.pk_freq, est.width, HzPerMHz),
                            freq  |-> est.pk_freq,
                            width |-> est.width]>>
                    ELSE <<>>]

PsdEvents(alerts) ==
    [i \in 1..Len(alerts) |->
        [path  |-> "psd",
         label |-> classify_signal(Some(alerts[i].center), alerts[i].width, HzPerMHz),
         freq  |-> Some(alerts[i].center),
         width |-> alerts[i].width]]

\* Whether the frame alone would give process_psd an accepted region.
AloneAccepted(f) == Accepted(Detector(args), f.freqs_hz, f.psd_db, 1) # <<>>

\* The observation variables after the frame step.
StreakAfter(cur_floor, new_min) ==
    IF cur_floor - Val(new_min) # 2 * (DefaultFloorRiseDb + 1) THEN 0
    ELSE IF streak >= 1 /\ streak < MaxStreak THEN streak + 1
    ELSE IF SeqSum(floor_hits_window) = 0 THEN 1 ELSE 0

\* Qualifying frames (median >= min_floor_db_seen + floor_alert_rise_db, alert
\* enabled) processed after the last floor alert before this frame, this frame
\* included.
QualsAfter(cur_floor, new_min) ==
    LET qual == IF args.floor_alert_enable
                     /\ cur_floor >= Val(new_min) + 2 * args.floor_alert_rise_db
                THEN 1 ELSE 0
    IN  Min2(MaxFloorPersistHits, (IF floor_fired THEN 0 ELSE quals_since_fire) + qual)

\* MinFloorAfter lowering the minimum only while the floor alert is enabled.
MinFloorAfterWhenEnabled(cur_floor) ==
    IF IsNone(min_floor_db_seen)
          \/ (args.floor_alert_enable /\ cur_floor < Val(min_floor_db_seen))
    THEN Some(cur_floor) ELSE min_floor_db_seen

\* run(): min_floor_db_seen after a frame of (doubled) median cur_floor.
MinFloorAfter(cur_floor) ==
    IF IsNone(min_floor_db_seen) \/ cur_floor < Val(min_floor_db_seen)
    THEN Some(cur_floor) ELSE min_floor_db_seen

\* One iteration of the dwell loop whose capture returned a frame.
CaptureFrame(iq) ==
    /\ pc = "dwell"
    /\ ~IsNone(capture_psd(args, center, iq))
    /\ \E f \in {Val(capture_psd(args, center, iq))} :
       \E cur_floor \in {Median2(f.psd_db)} :
       \E new_min \in {MinFloorAfter(cur_floor)} :
       \E p \in {PsdPath(f)} :
       \E fl \in {FloorPath(f, cur_floor, new_min)} :
       \E streak1 \in {StreakAfter(cur_floor, new_min)} :
       \E tags \in {DequeAppend(buf_tags, <<BandPos, center>>, args.avg_frames)} :
           /\ min_floor_db_seen' = new_min
           /\ psd_avg_buf' = p.buf
           /\ history' = IF p.ran THEN [history EXCEPT ![p.key] = p.res.hist] ELSE history
           /\ floor_hits_window' = fl.window
           /\ emitted' = PsdEvents(p.res.alerts) \o fl.events
           /\ last_pass' = IF p.ran
                           THEN [ran |-> TRUE, key |-> p.key, before |-> history[p.key],
                                 accepted |-> p.res.accepted, alerts |-> p.res.alerts,
                                 tags |-> tags]
                           ELSE NoPass
           /\ buf_tags' = tags
           /\ streak' = streak1
           /\ streak_fired' = IF streak1 = 0 THEN {}
                              ELSE (IF streak1 = 1 THEN {} ELSE streak_fired)
                                   \cup (IF fl.fires THEN {streak1} ELSE {})
           /\ lone_hot' = IF AloneAccepted(f) THEN Min2(2, lone_hot + 1) ELSE lone_hot
           /\ floors_seen' = floors_seen \cup {cur_floor}
           /\ floor_fired' = fl.fires
           /\ quals_since_fire' = QualsAfter(cur_floor, new_min)
           /\ left_hist' = IF p.ran THEN [left_hist EXCEPT ![p.key] = NoneVal]
                           ELSE left_hist
           /\ resumed' = (p.ran /\ ~IsNone(left_hist[p.key]))
    /\ event' = "frame"
    /\ UNCHANGED <<pc, exit_cause, band_idx, center_idx, visit_pos>>
    /\ UNCHANGED <<cfg_vars, fn_vars>>

\* CaptureSkip leaving the loop on a failed capture (break for continue).
CaptureSkipExits(iq) ==
    /\ pc = "dwell"
    /\ IsNone(capture_psd(args, center, iq))
    /\ pc' = "exited"
    /\ exit_cause' = "capture"
    /\ event' = "skip"
    /\ emitted' = <<>>
    /\ last_pass' = NoPass
    /\ UNCHANGED <<band_idx, center_idx, psd_avg_buf, history,
                   min_floor_db_seen, floor_hits_window>>
    /\ resumed' = FALSE
    /\ UNCHANGED <<buf_tags, visit_pos, streak, streak_fired, lone_hot, floors_seen,
                   floor_fired, quals_since_fire, left_hist>>
    /\ UNCHANGED <<cfg_vars, fn_vars>>

\* CaptureSkip counting the failed capture as a frame without a floor hit.
CaptureSkipFeedsFloor(iq) ==
    /\ pc = "dwell"
    /\ IsNone(capture_psd(args, center, iq))
    /\ floor_hits_window' = DequeAppend(floor_hits_window, 0, FloorWindowLen)
    /\ event' = "skip"
    /\ emitted' = <<>>
    /\ last_pass' = NoPass
    /\ UNCHANGED <<pc, exit_cause, band_idx, center_idx, psd_avg_buf, history,
                   min_floor_db_seen>>
    /\ resumed' = FALSE
    /\ UNCHANGED <<buf_tags, visit_pos, streak, streak_fired, lone_hot, floors_seen,
                   floor_fired, quals_since_fire, left_hist>>
    /\ UNCHANGED <<cfg_vars, fn_vars>>

\* One iteration of the dwell loop whose capture returned no data:
\* ui.draw(); continue.
CaptureSkip(iq) ==
    /\ pc = "dwell"
    /\ IsNone(capture_psd(args, center, iq))
    /\ event' = "skip"
    /\ emitted' = <<>>
    /\ last_pass' = NoPass
    /\ UNCHANGED <<pc, exit_cause, band_idx, center_idx, psd_avg_buf, history,
                   min_floor_db_seen, floor_hits_window>>
    /\ resumed' = FALSE
    /\ UNCHANGED <<buf_tags, visit_pos, streak, streak_fired, lone_hot, floors_seen,
                   floor_fired, quals_since_fire, left_hist>>
    /\ UNCHANGED <<cfg_vars, fn_vars>>

\* The key of the iteration that follows the end of the current dwell.
NextKey ==
    LET ci == center_idx + 1
        bi == IF (ci % Len(centers)) = 0 THEN band_idx + 1 ELSE band_idx
        b == (bi % Len(bands)) + 1
    IN  SweepKey(bands[b], band_centers[b][(ci % Len(band_centers[b])) + 1])

\* The observation left_hist after the end of a dwell: a key that the loop
\* leaves for another key with a non-empty history is recorded with it.
LeftHistAfter ==
    LET k == SweepKey(band, center)
    IN  IF NextKey # k /\ history[k] # <<>>
        THEN [left_hist EXCEPT ![k] = Some(history[k])]
        ELSE left_hist

\* DwellEnd without psd_avg_buf.clear() on the band advance.
DwellEndKeepsBuffer ==
    /\ pc = "dwell"
    /\ LET ci == center_idx + 1
           wraps == (ci % Len(centers)) = 0
       IN  /\ center_idx' = ci % CenterPeriod
           /\ band_idx' = IF wraps THEN (band_idx + 1) % Len(bands) ELSE band_idx
           /\ visit_pos' = IF wraps THEN 0 ELSE visit_pos + 1
           /\ event' = IF wraps THEN "band_advance" ELSE "center_advance"
    /\ emitted' = <<>>
    /\ last_pass' = NoPass
    /\ UNCHANGED <<pc, exit_cause, history, min_floor_db_seen, floor_hits_window>>
    /\ left_hist' = LeftHistAfter
    /\ resumed' = FALSE
    /\ UNCHANGED <<psd_avg_buf, buf_tags, streak, streak_fired, lone_hot, floors_seen,
                   floor_fired, quals_since_fire>>
    /\ UNCHANGED <<cfg_vars, fn_vars>>

\* DwellEnd dropping the history of the key whose dwell ends.
DwellEndResetsHistory ==
    /\ pc = "dwell"
    /\ LET ci == center_idx + 1
           wraps == (ci % Len(centers)) = 0
       IN  /\ center_idx' = ci % CenterPeriod
           /\ band_idx' = IF wraps THEN (band_idx + 1) % Len(bands) ELSE band_idx
           /\ psd_avg_buf' = IF wraps THEN <<>> ELSE psd_avg_buf
           /\ buf_tags' = IF wraps THEN <<>> ELSE buf_tags
           /\ visit_pos' = IF wraps THEN 0 ELSE visit_pos + 1
           /\ event' = IF wraps THEN "band_advance" ELSE "center_advance"
    /\ history' = [history EXCEPT ![SweepKey(band, center)] = <<>>]
    /\ emitted' = <<>>
    /\ last_pass' = NoPass
    /\ left_hist' = LeftHistAfter
    /\ resumed' = FALSE
    /\ UNCHANGED <<pc, exit_cause, min_floor_db_seen, floor_hits_window>>
    /\ UNCHANGED <<streak, streak_fired, lone_hot, floors_seen,
                   floor_fired, quals_since_fire>>
    /\ UNCHANGED <<cfg_vars, fn_vars>>

\* The dwell time is over: center_idx += 1, and when it wraps the current
\* centre list, band_idx += 1 and psd_avg_buf.clear().
DwellEnd ==
    /\ pc = "dwell"
    /\ LET ci == center_idx + 1
           wraps == (ci % Len(centers)) = 0
       IN  /\ center_idx' = ci % CenterPeriod
           /\ band_idx' = IF wraps THEN (band_idx + 1) % Len(bands) ELSE band_idx
           /\ psd_avg_buf' = IF wraps THEN <<>> ELSE psd_avg_buf
           /\ buf_tags' = IF wraps THEN <<>> ELSE buf_tags
           /\ visit_pos' = IF wraps THEN 0 ELSE visit_pos + 1
           /\ event' = IF wraps THEN "band_advance" ELSE "center_advance"
    /\ emitted' = <<>>
    /\ last_pass' = NoPass
    /\ UNCHANGED <<pc, exit_cause, history, min_floor_db_seen, floor_hits_window>>
    /\ left_hist' = LeftHistAfter
    /\ resumed' = FALSE
    /\ UNCHANGED <<streak, streak_fired, lone_hot, floors_seen,
                   floor_fired, quals_since_fire>>
    /\ UNCHANGED <<cfg_vars, fn_vars>>

\* KeyboardInterrupt (Ctrl+C, or key code 3 read by getch): the loop is left
\* through `except KeyboardInterrupt: pass`.
Cancel ==
    /\ pc = "dwell"
    /\ pc' = "exited"
    /\ exit_cause' = "cancel"
    /\ event' = "cancel"
    /\ emitted' = <<>>
    /\ last_pass' = NoPass
    /\ UNCHANGED <<band_idx, center_idx, psd_avg_buf, history,
                   min_floor_db_seen, floor_hits_window>>
    /\ resumed' = FALSE
    /\ UNCHANGED <<buf_tags, visit_pos, streak, streak_fired, lone_hot, floors_seen,
                   floor_fired, quals_since_fire, left_hist>>
    /\ UNCHANGED <<cfg_vars, fn_vars>>

Frame == \E iq \in ProviderReads : CaptureFrame(iq)
Skip == \E iq \in ProviderReads : CaptureSkip(iq)

Next == Frame \/ Skip \/ DwellEnd \/ Cancel

Spec == Init /\ [][Next]_vars

\* The loop when it is never cancelled and every dwell ends.
LoopStep == Frame \/ Skip \/ DwellEnd
FairSpec == InitWith(SweepConfigs) /\ [][LoopStep]_vars /\ WF_vars(DwellEnd)

\* ------------------------------------------- functions called on their own
\* Frequencies and widths handed to classify_signal, in tenths of a MHz: the
\* edges of the three windows, a tenth outside them, points inside, and the
\* widths around the 10 MHz limit of both rules.
TenthsPerMHz == 10
ClassifyFreqs ==
    {NoneVal} \cup
    {Some(f) : f \in {10000, 23999, 24000, 24500, 24830, 24831, 56499, 56500, 57000,
                      57249, 57250, 58000, 58500, 58501, 59200, 59201}}
ClassifyWidths == {0, 99, 100, 101, 110, 120, 121, 250}

\* Everything but the call and its result stays as it is.
LoopUnchanged == UNCHANGED <<cfg_vars, loop_vars, obs_vars>>

CallClassify ==
    \E f \in ClassifyFreqs : \E w \in ClassifyWidths :
        /\ call = NoCall
        /\ call' = [op |-> "classify_signal", in |-> [pk_freq |-> f, est_width |-> w]]
        /\ ret' = [label |-> classify_signal(f, w, TenthsPerMHz)]
        /\ LoopUnchanged

\* Regions handed to the acceptance rules: a width (Hz) and a mean and a peak
\* excess in tenths of a dB, as a run of 10 bins starting at 0 Hz.
GateWidths == {3900000, 4000000, 8000000, 9900000, 10000000, 12000000, 12100000,
               25000000, 40000000, 40100000}
GateMeans == {20, 50, 59, 60, 79, 80, 90, 99, 100}
GatePeaks == {119, 120, 130}
GateMeanExcessDb == {DefaultMeanExcessDb, DefaultMeanExcessDb + 2}
GateRegion(w, mean, peak) ==
    [cf |-> w \div 2, w |-> w, sum_ex |-> mean * ExScale(1), n |-> 10,
     peak_ex |-> peak * (ExScale(1) \div 10), lo |-> 0, hi |-> w]
\* A run of two hot bins 2 MHz apart: too narrow for both rules.
TooNarrow ==
    [cf |-> 61000000, w |-> 2000000, sum_ex |-> 30 * ExScale(1), n |-> 2,
     peak_ex |-> 15 * ExScale(1), lo |-> 60000000, hi |-> 62000000]

\* The acceptance loop and the persistence stage of process_psd on the regions
\* <<TooNarrow, GateRegion>>, first pass of a key, persist_hits = 1.
CallAccept ==
    \E m \in GateMeanExcessDb : \E w \in GateWidths :
    \E mean \in GateMeans : \E peak \in GatePeaks :
        LET det == Detector([BaseArgs EXCEPT !.mean_excess_db = m, !.persist_hits = 1])
            acc == AcceptRegions(det, <<TooNarrow, GateRegion(w, mean, peak)>>, 1)
        IN  /\ call = NoCall
            /\ call' = [op |-> "acceptance",
                        in |-> [mean_excess_db |-> m, w |-> w, mean |-> mean, peak |-> peak]]
            /\ ret' = [accepted |-> acc, res |-> Persistence(det, <<>>, acc)]
            /\ LoopUnchanged

\* Bands (MHz, low < high), receiver spans (Hz, even and odd, below, at and
\* above the band widths) and step overlaps in (0, 1] handed to
\* centers_for_band; the overlaps are binary fractions, for which the float
\* product span * step_overlap is exact.
SpanBands == {<<lo, hi>> : lo \in {0, 3}, hi \in {1, 2, 4, 5, 7, 8}} \ {<<3, 1>>, <<3, 2>>}
SpanRates == {1000000, 1500001, 2000000, 3000000, 3000001, 4000000, 6999999}
SpanOverlaps == {<<1, 8>>, <<1, 4>>, <<1, 2>>, <<3, 4>>, <<7, 8>>, <<1, 1>>}

CallCenters ==
    \E b \in SpanBands : \E sr \in SpanRates : \E ov \in SpanOverlaps :
        /\ call = NoCall
        /\ call' = [op |-> "centers_for_band",
                    in |-> [band_mhz |-> b, sample_rate_hz |-> sr, step_overlap |-> ov]]
        /\ ret' = [centers |-> centers_for_band(b, sr, ov)]
        /\ LoopUnchanged

\* _contiguous on every mask of up to MaxMaskLen bins.
CallContiguous ==
    \E n \in 0..MaxMaskLen : \E mask \in [1..n -> BOOLEAN] :
        /\ call = NoCall
        /\ call' = [op |-> "contiguous", in |-> [mask |-> mask]]
        /\ ret' = [runs |-> contiguous(mask)]
        /\ LoopUnchanged

\* The region extraction of process_psd on every frame of NumBins bins at 0 or
\* 15 dB, tuned to the centre of BandOne.
RegionLevels == {0, 15}
CallRegions ==
    \E psd \in [1..NumBins -> RegionLevels] :
        LET det == Detector(BaseArgs)
            freqs_hz == FreqAxis(8 * HzPerMHz, BaseArgs.nfft, BaseArgs.sample_rate)
        IN  /\ call = NoCall
            /\ call' = [op |-> "regions", in |-> [freqs_hz |-> freqs_hz, psd_db |-> psd]]
            /\ ret' = [hot     |-> HotMask(det, psd, 1),
                       regions |-> Regions(det, freqs_hz, psd, 1)]
            /\ LoopUnchanged

\* Both region extractions on every frame of fewer than MinFrameSize samples
\* at 0 or 30 dB, with a frequency axis of the same length.
ShortLevels == {0, 30}
ShortAxis(n) == [i \in 1..n |-> 8 * HzPerMHz + (i - 1) * HzPerMHz]
CallShortFrame ==
    \E n \in 0..(MinFrameSize - 1) : \E psd \in [1..n -> ShortLevels] :
        LET det == Detector(BaseArgs)
        IN  /\ call = NoCall
            /\ call' = [op |-> "short_frame", in |-> [freqs_hz |-> ShortAxis(n), psd_db |-> psd]]
            /\ ret' = [mask_based |-> process_psd_call(det, <<>>, ShortAxis(n), psd, 1),
                       at_peak    |-> estimate_region_at_peak(ShortAxis(n), psd,
                                          BaseArgs.nbins_baseline, BaseArgs.delta_db)]
            /\ LoopUnchanged

\* main(), after the mode is chosen: the bands with b > a are kept; with none
\* left it prints "No valid bands." and exits with status 1, otherwise it calls
\* run(args, fb).
main_bands(bs) ==
    LET fb == SelectSeq(bs, LAMBDA b : b[2] > b[1])
    IN  IF fb = <<>>
        THEN [exit |-> Some(1), message |-> "No valid bands.", run_bands |-> <<>>]
        ELSE [exit |-> NoneVal, message |-> "", run_bands |-> fb]

\* Band lists of up to two bands, valid or not (low = high, low > high).
MainBands == {<<0, 16>>, <<16, 16>>, <<28, 0>>, <<40, 70>>}
CallMain ==
    \E n \in 0..2 : \E bs \in [1..n -> MainBands] :
        /\ call = NoCall
        /\ call' = [op |-> "main", in |-> [bands |-> bs]]
        /\ ret' = main_bands(bs)
        /\ LoopUnchanged

FnInit == InitWith({[a |-> BaseArgs, b |-> <<BandOne>>, e |-> EnvQuiet]})
FnNext ==
    \/ CallClassify \/ CallAccept \/ CallCenters
    \/ CallContiguous \/ CallRegions \/ CallShortFrame
    \/ CallMain
FnSpec == FnInit /\ [][FnNext]_vars

\* ============================================================== properties
\* Largest band list and centre list of Configs (indices quantified over in
\* temporal formulas must be constant sets).
BandSlots == 1..2
CenterSlots == 1..3

\* The loop is dwelling on the c-th centre of the b-th band.
DwellingOn(b, c) == pc = "dwell" /\ BandPos = b /\ CenterPos + 1 = c

\* C1: each time the loop starts dwelling in a band its first centre is the
\* band's first centre, and it dwells on the band's centres once each in list
\* order before advancing: the position of the centre dwelled on equals the
\* number of dwells completed since the band was entered.
C1_CentersInListOrder == pc = "dwell" => CenterPos = visit_pos

\* C2: never cancelled and every dwell ending, every (band, centre) pair of the
\* computed centre lists is dwelled on again and again.
C2_EveryCenterDwelled ==
    \A b \in BandSlots : \A c \in CenterSlots :
        []<>((b <= Len(bands) /\ c <= Len(band_centers[b])) => DwellingOn(b, c))

\* The floor alert runs with the settings of the claim: enabled, rise 10 dB,
\* floor_persist_hits 2.
FloorDefaults ==
    /\ args.floor_alert_enable
    /\ args.floor_alert_rise_db = 10
    /\ args.floor_persist_hits = 2

\* C3 as claimed: five consecutive frames whose median is the run minimum + 11 dB
\* produce exactly one floor alert, on the 2nd of them.
C3_FiveFramesOneAlert == (FloorDefaults /\ streak = 5) => streak_fired = {2}

\* C3 as the code has it: the hit window is cleared by the alert and refills, so
\* five such frames, starting from a window without hits, produce exactly two
\* floor alerts, on the 2nd and on the 4th frame.
C3_FiveFramesTwoAlerts ==
    (FloorDefaults /\ streak >= 5) => streak_fired \cap (1..5) = {2, 4}

C3_Witness == FloorDefaults /\ streak = 5 /\ event = "frame" /\ emitted = <<>>

\* Length of the common part of two intervals <<lo, hi>> (negative when apart),
\* and the overlap test of the claims: common length over the shorter
\* interval's length at least one half.
Common(x, y) == Min2(x[2], y[2]) - Max2(x[1], y[1])
Shorter(x, y) == Min2(x[2] - x[1], y[2] - y[1])
HalfOverlap(x, y) == Common(x, y) > 0 /\ 2 * Common(x, y) >= Shorter(x, y)

\* The pass alerted for the accepted interval x.
AlertedFor(x) ==
    \E i \in DOMAIN last_pass.alerts :
        /\ last_pass.alerts[i].center = (x[1] + x[2]) \div 2
        /\ last_pass.alerts[i].width = x[2] - x[1]

\* C4: with persist_hits = 2 the first pass of a SweepKey produces no alert, and
\* in a later pass an accepted region alerts when an interval stored for the
\* immediately preceding pass of the key overlaps it by at least one half.
C4_FiresOnRecurrence ==
    (last_pass.ran /\ args.persist_hits = 2) =>
        /\ last_pass.before = <<>> => last_pass.alerts = <<>>
        /\ \A i \in DOMAIN last_pass.accepted :
              (/\ last_pass.before # <<>>
               /\ \E q \in DOMAIN last_pass.before[Len(last_pass.before)] :
                     HalfOverlap(last_pass.accepted[i],
                                 last_pass.before[Len(last_pass.before)][q]))
              => AlertedFor(last_pass.accepted[i])

\* An alert owed to a different interval of the preceding pass that overlaps
\* the accepted one by exactly one half.
C4_Witness ==
    /\ last_pass.ran /\ args.persist_hits = 2 /\ last_pass.before # <<>>
    /\ \E i \in DOMAIN last_pass.accepted :
          /\ AlertedFor(last_pass.accepted[i])
          /\ \A p \in DOMAIN last_pass.before : \A q \in DOMAIN last_pass.before[p] :
                /\ last_pass.before[p][q] # last_pass.accepted[i]
                /\ 2 * Common(last_pass.accepted[i], last_pass.before[p][q])
                     <= Shorter(last_pass.accepted[i], last_pass.before[p][q])

\* C5: with persist_hits >= 2 an accepted region produces no alert in a pass when
\* no interval of the (at most persist_window) passes held for the key overlaps
\* it by at least one half.
C5_NoRecurrenceNoAlert ==
    (last_pass.ran /\ args.persist_hits >= 2) =>
        /\ Len(last_pass.before) <= args.persist_window
        /\ \A i \in DOMAIN last_pass.accepted :
              (\A p \in DOMAIN last_pass.before : \A q \in DOMAIN last_pass.before[p] :
                   ~HalfOverlap(last_pass.accepted[i], last_pass.before[p][q]))
              => ~AlertedFor(last_pass.accepted[i])

\* A region accepted while the history holds a region that overlaps it, but by
\* less than one half: no alert.
C5_Witness ==
    /\ last_pass.ran /\ args.persist_hits >= 2 /\ last_pass.alerts = <<>>
    /\ \E i \in DOMAIN last_pass.accepted :
       \E p \in DOMAIN last_pass.before : \E q \in DOMAIN last_pass.before[p] :
          /\ Common(last_pass.accepted[i], last_pass.before[p][q]) > 0
          /\ ~HalfOverlap(last_pass.accepted[i], last_pass.before[p][q])

\* C6: with persist_hits >= 2, as long as at most one captured frame would alone
\* yield an accepted region, the persistence path alerts never.
C6_LoneFrameNeverAlerts ==
    (args.persist_hits >= 2 /\ lone_hot <= 1) => last_pass.alerts = <<>>

\* C7: every history holds at most persist_window entries, and a process_psd
\* call for a key leaves its history as the old one with the pass's accepted
\* list appended, cut to the persist_window most recent entries.
C7_HistoryIsRecentPasses ==
    /\ [](\A k \in Keys : Len(history[k]) <= args.persist_window)
    /\ [][last_pass'.ran =>
            LET k == last_pass'.key
                full == Append(history[k], last_pass'.accepted)
            IN  history'[k] = SubSeq(full,
                                     Max2(1, Len(full) - args.persist_window + 1),
                                     Len(full))]_vars

\* A pass on a full history whose oldest entry holds a region.
C7_Witness ==
    /\ last_pass.ran /\ args.persist_window >= 2
    /\ Len(last_pass.before) = args.persist_window
    /\ last_pass.before[1] # <<>>
    /\ last_pass.accepted # <<>>
    /\ last_pass.before[1] # last_pass.accepted

\* C8: the averaging buffer is empty after every band advance, never holds more
\* than avg_frames frames, holds only frames captured in the band being swept,
\* and every averaged pass is the mean of avg_frames frames of that band.
C8_BufferOfOneBand ==
    /\ Len(psd_avg_buf) <= args.avg_frames
    /\ Len(buf_tags) = Len(psd_avg_buf)
    /\ event = "band_advance" => psd_avg_buf = <<>>
    /\ \A i \in DOMAIN buf_tags : buf_tags[i][1] = BandPos
    /\ last_pass.ran =>
          /\ Len(last_pass.tags) = args.avg_frames
          /\ \A i \in DOMAIN last_pass.tags : last_pass.tags[i][1] = BandPos

\* An averaged pass in the second band of a list.
C8_Witness ==
    /\ last_pass.ran /\ args.avg_frames >= 2 /\ Len(bands) >= 2 /\ BandPos = 2

\* C9: the loop is left only by the external cancel, and while it is not left
\* it can always continue: with the next capture (a frame or a skipped frame)
\* and with the end of the dwell (next centre or next band).
C9_OnlyCancelLeaves ==
    /\ pc = "exited" => exit_cause = "cancel"
    /\ pc = "dwell" => (ENABLED DwellEnd /\ ENABLED (Skip \/ Frame))

\* The loop goes on after an alert and after a centre advance.
C9_Witness ==
    /\ pc = "dwell" /\ emitted # <<>> /\ visit_pos >= 1

\* C10: a capture that returns no data changes neither the run minimum floor,
\* the floor hit window, the averaging buffer nor any persistence history,
\* emits no alert, and leaves the loop where it was.
C10_SkipLeavesStateAlone ==
    [][event' = "skip" =>
          /\ min_floor_db_seen' = min_floor_db_seen
          /\ floor_hits_window' = floor_hits_window
          /\ psd_avg_buf' = psd_avg_buf
          /\ history' = history
          /\ emitted' = <<>>
          /\ pc' = "dwell"
          /\ band_idx' = band_idx /\ center_idx' = center_idx]_vars

\* A skipped frame with every one of these holding something.
C10_Witness ==
    /\ event = "skip"
    /\ ~IsNone(min_floor_db_seen)
    /\ SeqSum(floor_hits_window) > 0
    /\ psd_avg_buf # <<>>
    /\ \E k \in Keys : \E p \in DOMAIN history[k] : history[k][p] # <<>>

\* C11: min_floor_db_seen never increases; it is None until a frame is captured
\* and from then on it is the least median of all frames captured so far, with
\* the floor alert enabled or not.
C11_MinFloorIsRunMinimum ==
    /\ [](/\ IsNone(min_floor_db_seen) <=> floors_seen = {}
          /\ ~IsNone(min_floor_db_seen) =>
                /\ Val(min_floor_db_seen) \in floors_seen
                /\ \A m \in floors_seen : Val(min_floor_db_seen) <= m)
    /\ [][~IsNone(min_floor_db_seen) =>
            /\ ~IsNone(min_floor_db_seen')
            /\ Val(min_floor_db_seen') <= Val(min_floor_db_seen)]_vars

\* With the floor alert disabled, a frame whose median is above the minimum
\* of the run has been captured after the frame that set the minimum.
C11_Witness ==
    /\ ~args.floor_alert_enable /\ event = "frame"
    /\ Cardinality(floors_seen) >= 2
    /\ psd_avg_buf # <<>>
    /\ Median2(psd_avg_buf[Len(psd_avg_buf)]) > Val(min_floor_db_seen)

FloorEvents == {i \in DOMAIN emitted : emitted[i].path = "floor"}

\* C12: for floor_persist_hits >= 1 a frame that fires the floor alert leaves
\* the hit window empty, emits exactly one floor alert, and has at least
\* floor_persist_hits qualifying frames behind it since the previous firing
\* (itself included); a frame that does not fire emits no floor alert.
C12_FloorAlertOneShot ==
    (event = "frame" /\ args.floor_persist_hits >= 1) =>
        /\ floor_fired =>
              /\ floor_hits_window = <<>>
              /\ Cardinality(FloorEvents) = 1
              /\ quals_since_fire >= args.floor_persist_hits
        /\ ~floor_fired => FloorEvents = {}

\* A second firing, two qualifying frames after the first.
C12_Witness ==
    /\ event = "frame" /\ floor_fired /\ args.floor_persist_hits = 2
    /\ streak = 4 /\ streak_fired = {2, 4}
    /\ quals_since_fire = 2

\* The rule list of C13 on a frequency and a width in tenths of a MHz.
InRange(f, lo_mhz, hi_mhz) == lo_mhz * TenthsPerMHz <= f /\ f <= hi_mhz * TenthsPerMHz
RuleList(f, w) ==
    IF ~IsNone(f) /\ w <= 100 /\ InRange(Val(f), 5650, 5920) THEN "FPV Detected"
    ELSE IF ~IsNone(f) /\ w >= 100
               /\ (InRange(Val(f), 2400, 2483) \/ InRange(Val(f), 5725, 5850))
         THEN "DJI Detected"
    ELSE "Signal Detected"

C14_RulesNeverBothHold ==
    (call.op = "classify_signal" /\ ~IsNone(call.in.pk_freq)) =>
        ~(/\ FpvRule(Val(call.in.pk_freq), call.in.est_width, TenthsPerMHz)
          /\ DjiRule(Val(call.in.pk_freq), call.in.est_width, TenthsPerMHz))

\* The acceptance condition of C15 on a width (Hz) and excesses in tenths of a
\* dB, with the detector's three thresholds (dB).
GateAccepts(w, mean, peak, det) ==
    \/ /\ 10 * HzPerMHz <= w /\ w <= 40 * HzPerMHz
       /\ mean >= 10 * det.dji_mean_ex_db
    \/ /\ 4 * HzPerMHz <= w /\ w <= 12 * HzPerMHz
       /\ (peak >= 10 * det.fpv_peak_ex_db \/ mean >= 10 * det.fpv_mean_ex_db)

\* C15: a region is accepted exactly when (width in [10, 40] MHz and mean
\* excess >= dji_mean_ex_db) or (width in [4, 12] MHz and (peak excess >=
\* fpv_peak_ex_db or mean excess >= fpv_mean_ex_db)), and then once; alerts and
\* the history entry are made of the accepted regions only.  With the default
\* thresholds width 25 / mean 9 is accepted, width 25 / mean 5 is rejected and
\* width 8 / peak 13 / mean 2 is accepted.
C15_AcceptanceGate ==
    call.op = "acceptance" =>
        LET i == call.in
            r == GateRegion(i.w, i.mean, i.peak)
            det == Detector([BaseArgs EXCEPT !.mean_excess_db = i.mean_excess_db])
            acc == IF GateAccepts(i.w, i.mean, i.peak, det) THEN <<r>> ELSE <<>>
            defaults == i.mean_excess_db = DefaultMeanExcessDb
        IN  /\ ret.accepted = acc
            /\ ret.res.alerts = [k \in 1..Len(acc) |-> PsdAlert(acc[k])]
            /\ ret.res.hist = <<[k \in 1..Len(acc) |-> <<acc[k].lo, acc[k].hi>>]>>
            /\ (defaults /\ i.w = 25 * HzPerMHz /\ i.mean = 90) => ret.accepted = <<r>>
            /\ (defaults /\ i.w = 25 * HzPerMHz /\ i.mean = 50) => ret.accepted = <<>>
            /\ (defaults /\ i.w = 8 * HzPerMHz /\ i.peak = 130 /\ i.mean = 20)
                  => ret.accepted = <<r>>

\* Width 8 MHz, peak 13 dB, mean 2 dB under the defaults: accepted once, on
\* the peak clause alone.
C15_Witness ==
    /\ call.op = "acceptance"
    /\ call.in.mean_excess_db = DefaultMeanExcessDb /\ call.in.w = 8 * HzPerMHz
    /\ call.in.mean = 20 /\ call.in.peak = 130
    /\ Len(ret.accepted) = 1 /\ Len(ret.res.alerts) = 1

\* C16: for low < high, a positive span and a step overlap in (0, 1]: when the
\* band is wider than the span the centres are strictly ascending and the
\* intervals [centre - span/2, centre + span/2] cover [low, high] without a gap
\* (coordinates doubled, so that span/2 is exact); otherwise the result is the
\* band's midpoint alone.
C16_CentersCoverBand ==
    call.op = "centers_for_band" =>
        LET low == call.in.band_mhz[1] * HzPerMHz
            high == call.in.band_mhz[2] * HzPerMHz
            span == call.in.sample_rate_hz
            cs == ret.centers
        IN  IF high - low > span
            THEN /\ cs # <<>>
                 /\ \A i \in 1..(Len(cs) - 1) :
                        /\ cs[i] < cs[i + 1]
                        /\ 2 * cs[i + 1] - span <= 2 * cs[i] + span
                 /\ 2 * cs[1] - span <= 2 * low
                 /\ 2 * cs[Len(cs)] + span >= 2 * high
            ELSE Len(cs) = 1 /\ 2 * cs[1] = low + high

\* An odd span narrower than the band, with a last centre off the step grid
\* that reaches the high edge.
C16_Witness ==
    /\ call.op = "centers_for_band"
    /\ call.in.sample_rate_hz % 2 = 1
    /\ Len(ret.centers) >= 3
    /\ ret.centers[Len(ret.centers)] - ret.centers[Len(ret.centers) - 1]
          # ret.centers[2] - ret.centers[1]

\* runs (pairs <<first bin, bin after the last>>, bins counted from 0) are
\* exactly the maximal runs of TRUE in mask, in ascending order.
MaximalRuns(mask, runs) ==
    LET n == Len(mask)
        hot(b) == mask[b + 1]
    IN  /\ \A i \in DOMAIN runs :
              /\ 0 <= runs[i][1] /\ runs[i][1] <= runs[i][2] - 1 /\ runs[i][2] <= n
              /\ \A b \in runs[i][1]..(runs[i][2] - 1) : hot(b)
              /\ runs[i][1] > 0 => ~hot(runs[i][1] - 1)
              /\ runs[i][2] < n => ~hot(runs[i][2])
        /\ \A i \in 1..(Len(runs) - 1) : runs[i][2] < runs[i + 1][1]
        /\ \A b \in 0..(n - 1) :
              hot(b) => Cardinality({i \in DOMAIN runs :
                                       runs[i][1] <= b /\ b < runs[i][2]}) = 1

\* C17: the extracted runs are exactly the maximal runs of hot bins: ascending,
\* disjoint, at least one non-hot bin between two of them, every hot bin in
\* exactly one run and no other bin in any, first bin <= last bin; and a
\* region's edges are the frequencies of its first and last bin, low <= high,
\* width >= 0.
C17_RunsAreMaximal ==
    /\ call.op = "contiguous" => MaximalRuns(call.in.mask, ret.runs)
    /\ call.op = "regions" =>
          LET freqs == call.in.freqs_hz
              BinOf(f) == CHOOSE b \in 0..(Len(freqs) - 1) : freqs[b + 1] = f
              runs == [i \in DOMAIN ret.regions |->
                         <<BinOf(ret.regions[i].lo), BinOf(ret.regions[i].hi) + 1>>]
          IN  /\ \A i \in DOMAIN ret.regions :
                    /\ \E b \in DOMAIN freqs : freqs[b] = ret.regions[i].lo
                    /\ \E b \in DOMAIN freqs : freqs[b] = ret.regions[i].hi
                    /\ ret.regions[i].lo <= ret.regions[i].hi
                    /\ ret.regions[i].w = ret.regions[i].hi - ret.regions[i].lo
                    /\ ret.regions[i].w >= 0
              /\ MaximalRuns(ret.hot, runs)

\* Two runs, the second one open at the end of the mask.
C17_Witness ==
    /\ call.op = "contiguous"
    /\ Len(ret.runs) = 2
    /\ ret.runs[2][2] = Len(call.in.mask)
    /\ ret.runs[1][1] > 0

\* C18: on a frame of fewer than 3 samples the mask-based extraction of
\* process_psd and estimate_region_at_peak both give the no-region result and
\* raise nothing: no accepted region and no alert, and (None, None, 0.0).
C18_ShortFrameNoRegion ==
    call.op = "short_frame" =>
        /\ ret.mask_based.raised = "none"
        /\ ret.mask_based.res.accepted = <<>>
        /\ ret.mask_based.res.alerts = <<>>
        /\ IsNone(ret.at_peak.pk_freq) /\ IsNone(ret.at_peak.peak_db)
        /\ ret.at_peak.width = 0

\* C19: a band list that is empty or holds a band with low >= high is fatal:
\* it is reported and the process exits without calling run().
C19_InvalidBandsAreFatal ==
    (/\ call.op = "main"
     /\ \/ call.in.bands = <<>>
        \/ \E i \in DOMAIN call.in.bands : call.in.bands[i][1] >= call.in.bands[i][2])
    => (~IsNone(ret.exit) /\ ret.message # "" /\ ret.run_bands = <<>>)

\* The last n elements of s.
KeepLast(s, n) == SubSeq(s, Max2(1, Len(s) - n + 1), Len(s))

PsdEventsEmitted == {i \in DOMAIN emitted : emitted[i].path = "psd"}

\* C20: with the floor alert enabled every captured frame is evaluated by the
\* floor path exactly once: one entry, 1 for a qualifying raw frame and 0
\* otherwise, is appended to the hit window (which is then cleared if the alert
\* fires), the averaging buffer full or not, the persistence path alerting or
\* not; the outcome depends on the raw frame, the run minimum and the window
\* only, and the buffer and the histories change as the persistence path
\* alone changes them.
C20_FloorSeesEveryFrame ==
    [][(event' = "frame" /\ args.floor_alert_enable) =>
          LET raw == psd_avg_buf'[Len(psd_avg_buf')]
              q == IF Median2(raw) >= Val(min_floor_db_seen') + 2 * args.floor_alert_rise_db
                   THEN 1 ELSE 0
              win == KeepLast(Append(floor_hits_window, q), FloorWindowLen)
              fires == SeqSum(win) >= args.floor_persist_hits
          IN  /\ floor_hits_window' = IF fires THEN <<>> ELSE win
              /\ floor_fired' = fires
              /\ Cardinality({i \in DOMAIN emitted' : emitted'[i].path = "floor"})
                    = IF fires THEN 1 ELSE 0
              /\ psd_avg_buf' = KeepLast(Append(psd_avg_buf, raw), args.avg_frames)
              /\ \A k \in Keys :
                    history'[k] = IF last_pass'.ran /\ last_pass'.key = k
                                  THEN KeepLast(Append(history[k], last_pass'.accepted),
                                                args.persist_window)
                                  ELSE history[k]]_vars

\* A frame on which the persistence path and the floor path both alert, with
\* two frames averaged.
C20_Witness ==
    /\ event = "frame" /\ args.floor_alert_enable /\ args.avg_frames = 2
    /\ PsdEventsEmitted # {} /\ FloorEvents # {}

\* C21: every averaged frame handed to process_psd under SweepKey (band, center)
\* is the mean of frames that were all captured at that tuning centre: no frame
\* captured at an earlier centre is part of a pass evaluated under the current
\* centre's key.
C21_AveragedFramesOfOneCenter ==
    last_pass.ran =>
        /\ last_pass.key = SweepKey(band, center)
        /\ \A i \in DOMAIN last_pass.tags : last_pass.tags[i] = <<BandPos, center>>

\* C22: a process_psd call for SweepKey K changes the history of K only: every
\* step leaves the history of every other key as it is, no step other than a
\* process_psd call changes any history, and no key is added or removed; the
\* first pass for a key after the loop left it for another key and came back
\* starts from the history the key had when it was left.
C22_OnlyOwnHistoryChanges ==
    [][/\ DOMAIN history' = DOMAIN history
       /\ \A k \in Keys :
             history'[k] # history[k] =>
                 (last_pass'.ran /\ last_pass'.key = k /\ k = SweepKey(band, center))
       /\ resumed' =>
             /\ history[last_pass'.key] = Val(left_hist[last_pass'.key])
             /\ last_pass'.before = Val(left_hist[last_pass'.key])
             /\ last_pass'.before # <<>>]_vars

\* The first pass for a key after the loop came back to it alerts on a region
\* that recurs from the pass stored before the loop left, while another key
\* holds a region of its own.
C22_Witness ==
    /\ resumed /\ last_pass.ran
    /\ last_pass.alerts # <<>>
    /\ args.persist_hits = 2 /\ args.avg_frames = 1
    /\ \E k \in Keys : k # last_pass.key /\ history[k] # <<>> /\ history[k][1] # <<>>

\* C23: with the floor alert enabled and floor_persist_hits >= 1, after every
\* fully processed frame the hit window holds at most 5 entries and fewer hits
\* than floor_persist_hits; hence with floor_persist_hits > 5 no floor alert
\* ever fires.
C23_FloorWindowBelowThreshold ==
    (args.floor_alert_enable /\ args.floor_persist_hits >= 1) =>
        /\ Len(floor_hits_window) <= 5
        /\ SeqSum(floor_hits_window) < args.floor_persist_hits
        /\ args.floor_persist_hits > 5 => (~floor_fired /\ FloorEvents = {})

\* Five qualifying frames in a row fill the window with hits and no alert
\* fires, with floor_persist_hits = 6.
C23_Witness ==
    /\ args.floor_alert_enable /\ args.floor_persist_hits = 6
    /\ event = "frame"
    /\ floor_hits_window = <<1, 1, 1, 1, 1>>
    /\ quals_since_fire >= MaxFloorPersistHits

====
